---- MODULE Spec2Model ----
(***************************************************************************)
(* Model of src/sba.py: ComprehensiveSportsAnalyzer.                       *)
(*                                                                         *)
(* Units.  Lines and historical samples are integers in HALVES (200.5 is   *)
(* 401).  Probabilities, expected values and correlation coefficients are  *)
(* integers in HUNDREDTHS (0.85 is 85, -0.2 is -20).  A combined           *)
(* probability is an exact fraction [num, den] in lowest terms.  Python    *)
(* floats are modelled by these exact values.                              *)
(*                                                                         *)
(* A Python call either returns or raises; an outcome is a record whose    *)
(* kind is "return" or the name of the exception raised.                   *)
(***************************************************************************)
EXTENDS Integers, Sequences, FiniteSets, TLC

VARIABLES pc, sport, min_correlation, idx, valid_props, historical, z_score,
          evaluated, aout, cin, analysed, cout, pin, pout

vars == <<pc, sport, min_correlation, idx, valid_props, historical, z_score,
          evaluated, aout, cin, analysed, cout, pin, pout>>

avars == <<sport, min_correlation, idx, valid_props, historical, z_score,
           evaluated, aout>>

cvars == <<cin, analysed, cout>>

pvars == <<pin, pout>>

(***************************************************************************)
(* Bounds of the model.                                                    *)
(***************************************************************************)
\* longest historical series the data feed hands back
MaxHist == 2
\* longest list of evaluations handed to generate_optimal_parlays
MaxProps == 3
\* largest min_picks / max_picks argument
MaxPick == 3

(***************************************************************************)
(* PropType and the catalog SPORTS_PROPS.                                  *)
(***************************************************************************)
\* Python's None where a number is expected (PropType.threshold)
None == -1

\* PropType.prob_threshold default, 0.85
DefaultProbThreshold == 85

\* PropType(name, stat_key, alt_lines=...): threshold None, category "standard"
PropType(name, stat_key, alt_lines) ==
    [name |-> name, stat_key |-> stat_key, threshold |-> None,
     prob_threshold |-> DefaultProbThreshold, alt_lines |-> alt_lines,
     category |-> "standard"]

\* PropType(name, stat_key, category=...): threshold None, alt_lines None
\* (None is the empty sequence: "prop.alt_lines or [...]" treats both alike)
PropTypeCat(name, stat_key, category) ==
    [name |-> name, stat_key |-> stat_key, threshold |-> None,
     prob_threshold |-> DefaultProbThreshold, alt_lines |-> <<>>,
     category |-> category]

\* the categories of each sport, in dict order
Categories ==
    [football |-> <<"passing", "rushing", "receiving">>,
     basketball |-> <<"scoring">>]

SPORTS_PROPS ==
    [football |->
       [passing |-> <<
          PropType("Pass Yards", "passing_yards", <<401, 451, 501, 551, 601>>),
          PropType("Pass TDs", "passing_tds", <<1, 3, 5, 7>>),
          PropType("Pass Attempts", "pass_attempts", <<51, 61, 71, 81>>),
          PropType("Pass Completions", "pass_completions", <<31, 41, 51, 61>>),
          PropType("Interceptions", "interceptions", <<1, 3>>),
          PropType("Longest Completion", "longest_completion", <<41, 51, 61, 71>>),
          PropTypeCat("First TD Pass", "first_td_pass", "special") >>,
        rushing |-> <<
          PropType("Rush Yards", "rushing_yards", <<101, 151, 201>>),
          PropType("Rush TDs", "rushing_tds", <<1, 3>>) >>,
        receiving |-> <<
          PropType("Rec Yards", "receiving_yards", <<101, 151, 201>>),
          PropType("Rec TDs", "receiving_tds", <<1, 3>>) >>],
     basketball |->
       [scoring |-> <<
          PropType("Points", "points", <<31, 41, 51>>),
          PropType("Rebounds", "rebounds", <<11, 15, 21>>),
          PropType("Assists", "assists", <<9, 13, 17>>) >>]]

\* self.correlation_matrix['football']['passing']: keyed by ORDERED tuples
CorrelationKeys ==
    { <<"passing_yards", "pass_attempts">>,
      <<"passing_yards", "pass_completions">>,
      <<"pass_attempts", "pass_completions">> }

_initialize_correlation_matrix ==
    [k \in CorrelationKeys |->
        IF k = <<"passing_yards", "pass_attempts">> THEN 80
        ELSE IF k = <<"passing_yards", "pass_completions">> THEN 85
        ELSE 90]

\* self.variance_factors by category, in tenths
_initialize_variance_factors ==
    [standard |-> 10, alt_lines |-> 12, special |-> 15]

(***************************************************************************)
(* Helpers over sequences.                                                 *)
(***************************************************************************)
RECURSIVE SumSeq(_)
SumSeq(s) == IF s = <<>> THEN 0 ELSE Head(s) + SumSeq(Tail(s))

RECURSIVE Flatten(_)
Flatten(ss) == IF ss = <<>> THEN <<>> ELSE Head(ss) \o Flatten(Tail(ss))

(***************************************************************************)
(* analyze_props: the iterations of its three nested loops.                *)
(***************************************************************************)
\* prop.alt_lines or [prop.threshold]
LinesOf(prop) ==
    IF prop.alt_lines # <<>> THEN prop.alt_lines ELSE <<prop.threshold>>

\* the (category, prop, line) iterations of one category, in loop order
CategoryIterations(s, category) ==
    LET props == SPORTS_PROPS[s][category] IN
    Flatten([i \in 1..Len(props) |->
        [j \in 1..Len(LinesOf(props[i])) |->
            [category |-> category, prop |-> props[i],
             line |-> LinesOf(props[i])[j]]]])

\* SPORTS_PROPS.get(sport) in place of SPORTS_PROPS[sport]: no KeyError
LookupSportGet(s) == "return"

\* SPORTS_PROPS[sport]: KeyError for a sport that is no key of the catalog
LookupSport(s) ==
    IF s \in DOMAIN SPORTS_PROPS THEN "return" ELSE "KeyError"

\* the categories the loop of line 80 runs over (none without a catalog entry)
CategoriesOf(s) == IF s \in DOMAIN Categories THEN Categories[s] ELSE <<>>

\* all iterations of analyze_props for a sport, in loop order
Iterations(s) ==
    Flatten([c \in 1..Len(CategoriesOf(s)) |->
        CategoryIterations(s, CategoriesOf(s)[c])])

\* sample values of the data feed, in halves (20, 30 and 200.5; 200.5 is
\* also a line of the catalog)
SampleValues == {40, 60, 401}

\* the series _get_historical_data hands back (line 152): a fixed number of
\* independent normal draws, so never empty and never constant.  The model
\* takes 2..MaxHist samples in place of the 20 of the code; the method is
\* called anew in every iteration
Histories ==
    {h \in UNION {[1..n -> SampleValues] : n \in 2..MaxHist} :
        \E i \in 1..Len(h) : h[i] # h[1]}

\* n * sum(y*y) - sum(y)^2: n^2 times the population variance, so
\* np.std(historical) = 0 exactly when this is 0
VarianceTimesN2(h) ==
    Len(h) * SumSeq([i \in 1..Len(h) |-> h[i] * h[i]]) - SumSeq(h) * SumSeq(h)

\* _calculate_trend: least-squares slope over indices 0..n-1, as the
\* fraction num/den (in halves per index), den > 0 for n >= 2
_calculate_trend(h) ==
    LET n == Len(h)
        sx == SumSeq([i \in 1..n |-> i - 1])
        sxx == SumSeq([i \in 1..n |-> (i - 1) * (i - 1)])
        sxy == SumSeq([i \in 1..n |-> (i - 1) * h[i]])
    IN [num |-> n * sxy - sx * SumSeq(h), den |-> n * sxx - sx * sx]

\* _calculate_matchup_factor: 1.0, in tenths
_calculate_matchup_factor == 10

\* the positive factor that makes line and adjusted_mean integers:
\* trend is num/(2*den) in stat units, mean is sum/n in halves
Scale(h) == 2 * Len(h) * _calculate_trend(h).den * 10

\* adjusted_mean = mean * matchup_factor * (1 + trend), times Scale(h)
AdjustedMean(h) ==
    LET t == _calculate_trend(h) IN
    SumSeq(h) * _calculate_matchup_factor * (2 * t.den + t.num)

\* adjusted_std = std * variance_factor, squared and scaled: it is 0 exactly
\* when adjusted_std is
AdjustedStd(h, variance_factor) ==
    VarianceTimesN2(h) * variance_factor * variance_factor

\* z_score = (line - adjusted_mean) / adjusted_std, line 161, by class.  On
\* numpy floats (what _analyze_single_prop passes) a zero divisor gives inf,
\* -inf or nan with a warning; on Python floats it raises ZeroDivisionError
ZScore(adjusted_mean, adjusted_std, line, numpy_floats) ==
    IF adjusted_std # 0 THEN "finite"
    ELSE IF ~numpy_floats THEN "ZeroDivisionError"
    ELSE IF line > adjusted_mean THEN "posinf"
    ELSE IF line < adjusted_mean THEN "neginf"
    ELSE "nan"

\* _calculate_probability: computes z_score, then evaluates np.erf(...);
\* numpy defines no attribute erf, so the lookup raises AttributeError and
\* the function has no normal return
_calculate_probability(adjusted_mean, adjusted_std, line, numpy_floats) ==
    LET z == ZScore(adjusted_mean, adjusted_std, line, numpy_floats) IN
    IF z = "ZeroDivisionError"
    THEN [kind |-> "ZeroDivisionError", at |-> "z_score", z_score |-> "none"]
    ELSE [kind |-> "AttributeError", at |-> "np.erf", z_score |-> z]

\* _analyze_single_prop: None on an empty series ("if not historical"),
\* otherwise whatever _calculate_probability does on the numpy floats of
\* lines 114-122; the dict of lines 127-135 is built only from a probability
\* that was returned
_analyze_single_prop(h, prop, line) ==
    IF h = <<>> THEN [kind |-> "None", at |-> "", z_score |-> "none"]
    ELSE _calculate_probability(
             AdjustedMean(h),
             AdjustedStd(h, _initialize_variance_factors[prop.category]),
             line * Scale(h), TRUE)

\* "analysis and analysis['probability'] >= prop.prob_threshold"
Keep(analysis, prop) ==
    /\ analysis.kind = "return"
    /\ analysis.value.probability >= prop.prob_threshold

NoOutcome == [kind |-> "none", at |-> "", value |-> <<>>]

Sports == {"football", "basketball", "hockey"}

MinCorrelations == {-20, 80}

\* analyze_props is called: SPORTS_PROPS[sport] raises KeyError for a sport
\* that is no key of the catalog, otherwise the loops start
AnalyzeCall(s, mc) ==
    /\ pc = "idle"
    /\ sport' = s
    /\ min_correlation' = mc
    /\ IF LookupSport(s) = "return"
       THEN /\ pc' = "loop"
            /\ aout' = aout
       ELSE /\ pc' = "done"
            /\ aout' = [kind |-> LookupSport(s), at |-> "SPORTS_PROPS[sport]",
                        value |-> <<>>]
    /\ UNCHANGED <<idx, valid_props, historical, z_score, evaluated, cvars,
                   pvars>>

\* after iteration i: the next iteration, or past the last one line 93,
\* self._filter_correlated_props(valid_props, min_correlation); the class
\* defines no such method, so the attribute lookup raises
AfterIteration(i) ==
    IF i < Len(Iterations(sport))
    THEN /\ idx' = i + 1
         /\ UNCHANGED <<pc, aout>>
    ELSE /\ idx' = i + 1
         /\ pc' = "done"
         /\ aout' = [kind |-> "AttributeError",
                     at |-> "_filter_correlated_props", value |-> <<>>]

\* one iteration of the innermost loop of analyze_props, lines 82-91, and
\* after the last one line 93; h is the series _get_historical_data hands
\* back for this iteration
AnalyzeStep(h) ==
    /\ pc = "loop"
    /\ idx <= Len(Iterations(sport))
    /\ LET it == Iterations(sport)[idx] IN
       IF it.line = None
       THEN /\ AfterIteration(idx)
            /\ UNCHANGED <<valid_props, historical, z_score, evaluated>>
       ELSE LET analysis == _analyze_single_prop(h, it.prop, it.line) IN
            /\ historical' = h
            /\ z_score' = analysis.z_score
            /\ evaluated' = evaluated + 1
            /\ IF analysis.kind \in {"None", "return"}
               THEN /\ valid_props' = IF Keep(analysis, it.prop)
                                      THEN Append(valid_props, analysis.value)
                                      ELSE valid_props
                    /\ AfterIteration(idx)
               ELSE /\ pc' = "done"
                    /\ aout' = [kind |-> analysis.kind, at |-> analysis.at,
                                value |-> <<>>]
                    /\ UNCHANGED <<idx, valid_props>>
    /\ UNCHANGED <<sport, min_correlation, cvars, pvars>>

\* arguments of a direct call of _calculate_probability, in halves
AdjustedMeans == {40, 401}

AdjustedStds == {0, 20}

Lines == {31, 401, 451}

NoProbability == [adjusted_mean |-> 0, adjusted_std |-> 0, line |-> 0,
                  numpy_floats |-> FALSE]

\* one call of _calculate_probability, on numpy floats or on Python floats
ProbabilityCall(adjusted_mean, adjusted_std, line, numpy_floats) ==
    /\ pc = "idle"
    /\ pin' = [adjusted_mean |-> adjusted_mean, adjusted_std |-> adjusted_std,
               line |-> line, numpy_floats |-> numpy_floats]
    /\ pout' = _calculate_probability(adjusted_mean, adjusted_std, line,
                                      numpy_floats)
    /\ pc' = "calculated"
    /\ UNCHANGED <<avars, cvars>>

(***************************************************************************)
(* generate_optimal_parlays.                                               *)
(***************************************************************************)
\* an evaluation dict (the keys the composer reads, and the line)
Evaluation(prop_name, stat_key, line, probability, ev) ==
    [prop_name |-> prop_name, stat_key |-> stat_key, line |-> line,
     probability |-> probability, ev |-> ev]

\* the evaluations the lists handed to generate_optimal_parlays are made of
EvalPool ==
    { Evaluation("Pass Yards", "passing_yards", 401, 90, 10),
      Evaluation("Pass Attempts", "pass_attempts", 51, 90, 20),
      Evaluation("Pass Completions", "pass_completions", 31, 95, 10),
      Evaluation("Points", "points", 31, 90, 20) }

EvalLists == UNION {[1..n -> EvalPool] : n \in 0..MaxProps}

MinProbabilities == {80, 85}

\* every sequence of ss with x put in front
RECURSIVE PrependAll(_, _)
PrependAll(x, ss) ==
    IF ss = <<>> THEN <<>>
    ELSE <<(<<x>> \o Head(ss))>> \o PrependAll(x, Tail(ss))

\* itertools.combinations over positions lo..m, r at a time, in the order
\* itertools yields them (lexicographic in the positions)
RECURSIVE CombinationsFrom(_, _, _)
CombinationsFrom(lo, m, r) ==
    IF r = 0 THEN << <<>> >>
    ELSE IF lo > m THEN <<>>
    ELSE PrependAll(lo, CombinationsFrom(lo + 1, m, r - 1))
           \o CombinationsFrom(lo + 1, m, r)

\* positions drawn with repetition (itertools.product), n at a time
RECURSIVE ProductOfPositions(_, _)
ProductOfPositions(m, n) ==
    IF n = 0 THEN << <<>> >>
    ELSE Flatten([i \in 1..m |-> PrependAll(i, ProductOfPositions(m, n - 1))])

\* itertools.combinations(valid_props, n) for n >= 0, as tuples of positions
Combinations(m, n) == CombinationsFrom(1, m, n)

\* a lookup that normalises the pair: either order finds the coefficient
CorrelationGetSymmetric(k1, k2) ==
    IF <<k1, k2>> \in DOMAIN _initialize_correlation_matrix
    THEN _initialize_correlation_matrix[<<k1, k2>>]
    ELSE IF <<k2, k1>> \in DOMAIN _initialize_correlation_matrix
    THEN _initialize_correlation_matrix[<<k2, k1>>]
    ELSE 0

\* correlation_matrix['football']['passing'].get((k1, k2), 0)
CorrelationGet(k1, k2) ==
    IF <<k1, k2>> \in DOMAIN _initialize_correlation_matrix
    THEN _initialize_correlation_matrix[<<k1, k2>>]
    ELSE 0

\* _calculate_total_correlation: the generator runs over all p, p2 of props
\* with p != p2 (dict comparison)
_calculate_total_correlation(props) ==
    SumSeq(Flatten([i \in 1..Len(props) |->
        [j \in 1..Len(props) |->
            IF props[i] # props[j]
            THEN CorrelationGet(props[i].stat_key, props[j].stat_key)
            ELSE 0]]))

RECURSIVE Gcd(_, _)
Gcd(a, b) == IF b = 0 THEN a ELSE Gcd(b, a % b)

\* the fraction num/den in lowest terms (num >= 0, den > 0)
Fraction(num, den) ==
    [num |-> num \div Gcd(num, den), den |-> den \div Gcd(num, den)]

\* "combined *= prob" over the probabilities, from combined = 1.0
RECURSIVE ProductOfProbabilities(_)
ProductOfProbabilities(individual_probs) ==
    IF individual_probs = <<>> THEN Fraction(1, 1)
    ELSE LET rest == ProductOfProbabilities(
                         SubSeq(individual_probs, 1, Len(individual_probs) - 1))
             prob == Fraction(individual_probs[Len(individual_probs)], 100)
         IN Fraction(rest.num * prob.num, rest.den * prob.den)

\* _calculate_combined_probability: product of the probabilities times
\* (1 + total_correlation), as an exact fraction in lowest terms
_calculate_combined_probability(individual_probs, total_correlation) ==
    LET combined == ProductOfProbabilities(individual_probs)
        factor == Fraction(100 + total_correlation, 100)
    IN Fraction(combined.num * factor.num, combined.den * factor.den)

\* _calculate_combined_ev
_calculate_combined_ev(props) ==
    SumSeq([i \in 1..Len(props) |-> props[i].ev])

\* _analyze_parlay: the dict it returns
_analyze_parlay(props) ==
    [combined_probability |->
        _calculate_combined_probability(
            [i \in 1..Len(props) |-> props[i].probability],
            _calculate_total_correlation(props)),
     ev |-> _calculate_combined_ev(props),
     props |-> [i \in 1..Len(props) |-> props[i].prop_name]]

\* the fraction f >= p hundredths
FractionGeq(f, p) == f.num * 100 >= p * f.den

\* sorted(parlays, key=ev, reverse=True): stable, equal keys keep their order
RECURSIVE InsertByEv(_, _)
InsertByEv(x, s) ==
    IF s = <<>> THEN <<x>>
    ELSE IF Head(s).ev >= x.ev THEN <<Head(s)>> \o InsertByEv(x, Tail(s))
    ELSE <<x>> \o s

RECURSIVE SortedByEvDesc(_)
SortedByEvDesc(s) ==
    IF s = <<>> THEN <<>>
    ELSE InsertByEv(s[Len(s)], SortedByEvDesc(SubSeq(s, 1, Len(s) - 1)))

\* the legs of a combination of positions
Legs(vp, combo) == [i \in 1..Len(combo) |-> vp[combo[i]]]

\* the loop body of lines 101-104 over the combinations ci.. of size n;
\* st is [kind, at, parlays, analysed].  parlay['probability'] raises
\* KeyError when the dict has no such key
RECURSIVE RunCombos(_, _, _, _, _, _)
RunCombos(vp, n, combos, ci, min_probability, st) ==
    IF ci > Len(combos) THEN st
    ELSE LET parlay == _analyze_parlay(Legs(vp, combos[ci]))
             seen == Append(st.analysed,
                        [legs |-> combos[ci], n |-> n,
                         total_correlation |->
                            _calculate_total_correlation(Legs(vp, combos[ci])),
                         parlay |-> parlay])
         IN IF "probability" \notin DOMAIN parlay
            THEN [kind |-> "KeyError", at |-> "parlay['probability']",
                  parlays |-> st.parlays, analysed |-> seen]
            ELSE RunCombos(vp, n, combos, ci + 1, min_probability,
                     [st EXCEPT !.analysed = seen,
                                !.parlays =
                                    IF FractionGeq(parlay["probability"], min_probability)
                                    THEN Append(st.parlays, parlay)
                                    ELSE st.parlays])

\* the loop of line 100 from n on; itertools.combinations raises ValueError
\* for a negative size
RECURSIVE RunPicks(_, _, _, _, _)
RunPicks(vp, n, max_picks, min_probability, st) ==
    IF n > max_picks THEN st
    ELSE IF n < 0
    THEN [st EXCEPT !.kind = "ValueError", !.at = "itertools.combinations"]
    ELSE LET after == RunCombos(vp, n, Combinations(Len(vp), n), 1,
                                min_probability, st)
         IN IF after.kind # "return" THEN after
            ELSE RunPicks(vp, n + 1, max_picks, min_probability, after)

\* generate_optimal_parlays: the outcome, with the list returned in value
generate_optimal_parlays(vp, min_picks, max_picks, min_probability) ==
    LET st == RunPicks(vp, min_picks, max_picks, min_probability,
                       [kind |-> "return", at |-> "", parlays |-> <<>>,
                        analysed |-> <<>>])
    IN [kind |-> st.kind, at |-> st.at, analysed |-> st.analysed,
        value |-> IF st.kind = "return" THEN SortedByEvDesc(st.parlays) ELSE <<>>]

NoInput == [valid_props |-> <<>>, min_picks |-> 0, max_picks |-> 0,
            min_probability |-> 0]

\* one call of generate_optimal_parlays
ComposeCall(vp, min_picks, max_picks, min_probability) ==
    /\ pc = "idle"
    /\ LET r == generate_optimal_parlays(vp, min_picks, max_picks, min_probability) IN
       /\ cin' = [valid_props |-> vp, min_picks |-> min_picks,
                  max_picks |-> max_picks, min_probability |-> min_probability]
       /\ analysed' = r.analysed
       /\ cout' = [kind |-> r.kind, at |-> r.at, value |-> r.value]
    /\ pc' = "composed"
    /\ UNCHANGED <<avars, pvars>>

Init ==
    /\ pc = "idle"
    /\ sport = ""
    /\ min_correlation = -20
    /\ idx = 1
    /\ valid_props = <<>>
    /\ historical = <<>>
    /\ z_score = "none"
    /\ evaluated = 0
    /\ aout = NoOutcome
    /\ cin = NoInput
    /\ analysed = <<>>
    /\ cout = [kind |-> "none", at |-> "", value |-> <<>>]
    /\ pin = NoProbability
    /\ pout = [kind |-> "none", at |-> "", z_score |-> "none"]

Next ==
    \/ \E s \in Sports, mc \in MinCorrelations : AnalyzeCall(s, mc)
    \/ \E h \in Histories : AnalyzeStep(h)
    \/ \E am \in AdjustedMeans, sd \in AdjustedStds, l \in Lines,
          np \in BOOLEAN : ProbabilityCall(am, sd, l, np)
    \/ \E vp \in EvalLists, lo \in -1..MaxPick, hi \in 0..MaxPick,
          mp \in MinProbabilities : ComposeCall(vp, lo, hi, mp)

Spec == Init /\ [][Next]_vars

(***************************************************************************)
(* Properties.                                                             *)
(***************************************************************************)
InCatalog == sport \in DOMAIN SPORTS_PROPS

AnalyzeDone == pc = "done" /\ InCatalog

\* a call of generate_optimal_parlays that itertools accepts (sizes >= 0)
Composed == pc = "composed" /\ cin.min_picks >= 0

\* C1: every call of generate_optimal_parlays returns a list whose candidates
\* all have between min_picks and max_picks legs and a combined probability
\* of at least min_probability.
C1_PicksAndFloor ==
    Composed =>
        /\ cout.kind = "return"
        /\ \A i \in 1..Len(cout.value) :
              /\ Len(cout.value[i].props) >= cin.min_picks
              /\ Len(cout.value[i].props) <= cin.max_picks
              /\ FractionGeq(cout.value[i].combined_probability,
                             cin.min_probability)

\* C2: every call of generate_optimal_parlays returns its kept candidates
\* ordered by non-increasing ev, candidates of equal ev in the order in
\* which they were enumerated.
C2_SortedByEv ==
    Composed =>
        /\ cout.kind = "return"
        /\ \A i \in 1..(Len(cout.value) - 1) :
              cout.value[i].ev >= cout.value[i + 1].ev
        /\ cout.value =
              SortedByEvDesc(SelectSeq([i \in 1..Len(analysed) |-> analysed[i].parlay],
                  LAMBDA q : FractionGeq(q.combined_probability,
                                         cin.min_probability)))

\* C3: analyze_props on a sport of the catalog returns evaluations whose
\* probability is at least the prob_threshold of their prop definition.
C3_CutoffRespected ==
    AnalyzeDone =>
        /\ aout.kind = "return"
        /\ \A i \in 1..Len(aout.value) :
              aout.value[i].probability >= DefaultProbThreshold

\* the coefficient the table records for the unordered pair {k1, k2}
RecordedCoefficient(k1, k2) ==
    IF \E k \in CorrelationKeys : {k[1], k[2]} = {k1, k2}
    THEN _initialize_correlation_matrix[
             CHOOSE k \in CorrelationKeys : {k[1], k[2]} = {k1, k2}]
    ELSE 0

\* whether a coefficient is recorded for the statistic keys of two evaluations
Recorded(e1, e2) ==
    \/ <<e1.stat_key, e2.stat_key>> \in CorrelationKeys
    \/ <<e2.stat_key, e1.stat_key>> \in CorrelationKeys

InSeq(x, seq) == \E i \in 1..Len(seq) : seq[i] = x

\* C4: analyze_props on a sport of the catalog gets to its correlation
\* filter, which returns: both evaluations of a pair whose recorded
\* correlation equals min_correlation, only the more probable one of a pair
\* recorded strictly below it, and every evaluation that has no recorded
\* correlation.
C4_CorrelationFilter ==
    AnalyzeDone =>
        /\ idx > Len(Iterations(sport))
        /\ aout.kind = "return"
        /\ \A i, j \in 1..Len(valid_props) :
              LET e1 == valid_props[i]
                  e2 == valid_props[j]
                  c == RecordedCoefficient(e1.stat_key, e2.stat_key)
              IN /\ (Recorded(e1, e2) /\ c = min_correlation)
                       => InSeq(e1, aout.value) /\ InSeq(e2, aout.value)
                 /\ (Recorded(e1, e2) /\ c < min_correlation
                       /\ e1.probability < e2.probability)
                       => ~InSeq(e1, aout.value) /\ InSeq(e2, aout.value)
        /\ \A i \in 1..Len(valid_props) :
              (\A j \in 1..Len(valid_props) :
                    ~Recorded(valid_props[i], valid_props[j]))
                 => InSeq(valid_props[i], aout.value)

\* _calculate_probability was called with an adjusted standard deviation of 0
ZeroStd == pc = "calculated" /\ pin.adjusted_std = 0

\* C5: a zero adjusted standard deviation is handled as an explicit edge
\* case: no division-by-zero fault is raised, the division is not carried
\* out to an infinite or undefined z_score, and the call returns.
C5_ZeroStdHandled ==
    ZeroStd =>
        /\ pout.kind = "return"
        /\ pout.z_score \notin {"posinf", "neginf", "nan"}

\* the two independent evaluations of the end-to-end scenario
ScenarioProps ==
    << Evaluation("Pass Yards", "passing_yards", 401, 90, 10),
       Evaluation("Points", "points", 31, 90, 20) >>

InScenario ==
    /\ pc = "composed"
    /\ cin.valid_props = ScenarioProps
    /\ cin.min_picks = 2
    /\ cin.max_picks >= 2
    /\ cin.min_probability = 80

\* C6: probabilities 0.9 and 0.9, EVs 0.1 and 0.2, no recorded correlation,
\* min_probability 0.8, min_picks 2: exactly one candidate is returned, with
\* combined probability 0.81 and combined EV 0.3.
C6_Scenario ==
    InScenario =>
        /\ cout.kind = "return"
        /\ Len(cout.value) = 1
        /\ cout.value[1].combined_probability.num * 100
              = 81 * cout.value[1].combined_probability.den
        /\ cout.value[1].ev = 30

StrictlyIncreasing(t) == \A i \in 1..(Len(t) - 1) : t[i] < t[i + 1]

\* the sets of positions of a sequence of combinations are pairwise different
NoRepeatedSet(combos) ==
    \A i, j \in 1..Len(combos) :
        i # j => {combos[i][k] : k \in 1..Len(combos[i])}
                    # {combos[j][k] : k \in 1..Len(combos[j])}

LegsFromInput(a) ==
    /\ \A k \in 1..Len(a.legs) : a.legs[k] \in 1..Len(cin.valid_props)
    /\ StrictlyIncreasing(a.legs)
    /\ Len(a.parlay.props) = Len(a.legs)

\* C7 as stated: whatever min_picks and max_picks are, every candidate
\* generate_optimal_parlays builds has more than one leg, the legs being
\* different positions of the input list.
C7_MoreThanOneLeg ==
    \A i \in 1..Len(analysed) :
        Len(analysed[i].legs) > 1 /\ LegsFromInput(analysed[i])

\* C7 amended: every candidate generate_optimal_parlays builds has k legs
\* with min_picks <= k <= max_picks (so more than one leg when min_picks is
\* at least 2), the legs are different positions of the input list taken in
\* list order, and no set of positions comes twice in the enumeration of a
\* leg count.
C7_LegsWithinPicks ==
    /\ \A i \in 1..Len(analysed) :
          /\ Len(analysed[i].legs) >= cin.min_picks
          /\ Len(analysed[i].legs) <= cin.max_picks
          /\ (cin.min_picks >= 2 => Len(analysed[i].legs) > 1)
          /\ LegsFromInput(analysed[i])
    /\ Composed =>
          \A n \in cin.min_picks..cin.max_picks :
              LET combos == Combinations(Len(cin.valid_props), n) IN
              /\ NoRepeatedSet(combos)
              /\ \A c \in 1..Len(combos) :
                    Len(combos[c]) = n /\ StrictlyIncreasing(combos[c])

\* a candidate of three legs was built from a list of three evaluations
C7_Witness ==
    /\ pc = "composed"
    /\ cin.min_picks = 3
    /\ Len(analysed) >= 1
    /\ analysed[1].legs = <<1, 2, 3>>

\* C8: analyze_props with a sport that is no key of the catalog raises
\* KeyError; it returns nothing and evaluates no pair.
C8_UnknownSportKeyError ==
    (pc \in {"loop", "done"} /\ ~InCatalog) =>
        /\ pc = "done"
        /\ aout.kind = "KeyError"
        /\ aout.value = <<>>
        /\ evaluated = 0

\* analyze_props was called with a sport outside the catalog and raised
C8_Witness ==
    pc = "done" /\ sport = "hockey" /\ aout.kind = "KeyError"

\* C9: no pair aborts analyze_props: a pair with an empty series or a
\* failing evaluation is left out, nothing is raised for it, and the loop
\* goes on through the remaining pairs.
C9_FailuresAreLocal ==
    AnalyzeDone =>
        /\ evaluated = Cardinality({i \in 1..Len(Iterations(sport)) :
                                      Iterations(sport)[i].line # None})
        /\ aout.at # "np.erf"

\* the coefficient recorded for the unordered pair of statistic keys of
\* every two legs i < j, summed
RECURSIVE UnorderedPairSum(_, _, _)
UnorderedPairSum(props, i, j) ==
    IF i >= Len(props) THEN 0
    ELSE IF j > Len(props) THEN UnorderedPairSum(props, i + 1, i + 2)
    ELSE RecordedCoefficient(props[i].stat_key, props[j].stat_key)
           + UnorderedPairSum(props, i, j + 1)

\* C10 as stated: total_correlation counts every unordered pair of legs
\* twice, 2*c for a recorded coefficient c.
C10_CountedTwice ==
    \A i \in 1..Len(analysed) :
        analysed[i].total_correlation
            = 2 * UnorderedPairSum(Legs(cin.valid_props, analysed[i].legs), 1, 2)

\* C10 amended: total_correlation is the sum over ordered pairs of distinct
\* legs of the coefficient recorded under that ordered key tuple; the table
\* records each pair in one order only, so every unordered pair of legs with
\* a recorded coefficient c contributes c once (passing_yards with
\* pass_attempts gives 0.8).
C10_CountedOnce ==
    \A i \in 1..Len(analysed) :
        analysed[i].total_correlation
            = UnorderedPairSum(Legs(cin.valid_props, analysed[i].legs), 1, 2)

\* a candidate on passing_yards and pass_attempts was built, in either order
C10_Witness ==
    /\ Len(analysed) >= 1
    /\ Len(analysed[1].legs) = 2
    /\ {cin.valid_props[1].stat_key, cin.valid_props[2].stat_key}
          = {"passing_yards", "pass_attempts"}
    /\ analysed[1].total_correlation = 80

====
